---- MODULE Spec2Model ----
(***************************************************************************)
(* Version resolution, write/delete orchestration and listing of the S3    *)
(* gateway layer (api/layer: versioning and object code).                  *)
(*                                                                         *)
(* Strings are modelled as sequences of tokens: an object id is the        *)
(* one-token string <<id>>, a header value such as "3,1" is the token      *)
(* sequence <<3, Comma, 1>>, the delete-mark "*" is <<Star>>.  Lists of    *)
(* strings ([]string) are sequences of such strings.                       *)
(***************************************************************************)
EXTENDS Integers, Sequences, FiniteSets, TLC

\* ------------------------------------------------------------------ bounds
MaxId == 3
MaxEpoch == 2
MaxFolds == 3

\* --------------------------------------------------------------- constants
Comma == 0
Star == -1

IDs == 1..MaxId
Epochs == 1..MaxEpoch

EmptyStr == << >>
delMarkFullObject == <<Star>>
KeyName == <<1>>

\* ----------------------------------------------------------------- strings
RECURSIVE StrLess(_, _)
StrLess(a, b) ==
    IF Len(a) = 0 THEN Len(b) > 0
    ELSE IF Len(b) = 0 THEN FALSE
    ELSE IF Head(a) = Head(b) THEN StrLess(Tail(a), Tail(b))
    ELSE Head(a) < Head(b)

Range(s) == { s[i] : i \in 1..Len(s) }

RECURSIVE splitOn(_, _)
splitOn(s, cur) ==
    IF Len(s) = 0 THEN <<cur>>
    ELSE IF Head(s) = Comma THEN <<cur>> \o splitOn(Tail(s), EmptyStr)
    ELSE splitOn(Tail(s), Append(cur, Head(s)))

splitVersions(header) ==
    IF Len(header) = 0 THEN << >> ELSE splitOn(header, EmptyStr)

RECURSIVE joinVersions(_)
joinVersions(list) ==
    IF Len(list) = 0 THEN EmptyStr
    ELSE IF Len(list) = 1 THEN list[1]
    ELSE list[1] \o <<Comma>> \o joinVersions(Tail(list))

contains(list, elem) == \E i \in 1..Len(list) : list[i] = elem

\* F applied to the value of v (v is evaluated once)
With(v, F(_)) == CHOOSE r \in { F(x) : x \in {v} } : TRUE

\* strings.HasPrefix, strings.TrimPrefix, strings.Index (0-based, -1 when
\* sep does not occur)
HasPrefix(s, prefix) ==
    Len(prefix) <= Len(s) /\ SubSeq(s, 1, Len(prefix)) = prefix

TrimPrefix(s, prefix) ==
    IF HasPrefix(s, prefix) THEN SubSeq(s, Len(prefix) + 1, Len(s)) ELSE s

Index(s, sep) ==
    LET hits == { i \in 0..(Len(s) - Len(sep)) : SubSeq(s, i + 1, i + Len(sep)) = sep }
    IN  IF hits = {} THEN -1 ELSE CHOOSE i \in hits : \A j \in hits : i <= j

\* ------------------------------------------------------------- ObjectInfo
Version(oi) == <<oi.id>>

less(ov1, ov2) ==
    IF ov1.epoch = ov2.epoch
    THEN StrLess(Version(ov1), Version(ov2))
    ELSE ov1.epoch < ov2.epoch

\* ---------------------------------------------------------- objectVersions
newObjectVersions(name) ==
    [name |-> name, objects |-> << >>, addList |-> << >>, delList |-> << >>,
     isSorted |-> FALSE]

RECURSIVE addMissing(_, _)
addMissing(list, items) ==
    IF Len(items) = 0 THEN list
    ELSE addMissing(IF contains(list, Head(items)) THEN list
                    ELSE Append(list, Head(items)),
                    Tail(items))

appendVersionNoOwnId(v, oi) ==
    [v EXCEPT !.objects = Append(v.objects, oi),
              !.addList = addMissing(v.addList, splitVersions(oi.add)),
              !.delList = addMissing(v.delList, splitVersions(oi.del)),
              !.isSorted = FALSE]

\* variant whose del-list is the one of the version appended last
appendVersionLastDel(v, oi) ==
    [v EXCEPT !.objects = Append(v.objects, oi),
              !.addList = addMissing(v.addList, Append(splitVersions(oi.add), Version(oi))),
              !.delList = splitVersions(oi.del),
              !.isSorted = FALSE]

appendVersion(v, oi) ==
    LET addVers == Append(splitVersions(oi.add), Version(oi))
        delVers == splitVersions(oi.del)
    IN  [v EXCEPT !.objects = Append(v.objects, oi),
                  !.addList = addMissing(v.addList, addVers),
                  !.delList = addMissing(v.delList, delVers),
                  !.isSorted = FALSE]

RECURSIVE insertSorted(_, _)
insertSorted(s, oi) ==
    IF Len(s) = 0 THEN <<oi>>
    ELSE IF less(oi, Head(s)) THEN <<oi>> \o s
    ELSE <<Head(s)>> \o insertSorted(Tail(s), oi)

RECURSIVE sortSlice(_)
sortSlice(objs) ==
    IF Len(objs) = 0 THEN << >>
    ELSE With(sortSlice(Tail(objs)), LAMBDA s : insertSorted(s, Head(objs)))

sort(v) ==
    IF v.isSorted THEN v
    ELSE [v EXCEPT !.objects = sortSlice(v.objects), !.isSorted = TRUE]

getExistedVersions(v) ==
    SelectSeq(v.addList, LAMBDA add : ~contains(v.delList, add))

Nil == [id |-> 0]

\* scan variants used to probe the claims about getLast
RECURSIVE scanLastThroughMarker(_, _, _)
scanLastThroughMarker(objs, existed, i) ==
    IF i < 1 THEN Nil
    ELSE IF contains(existed, Version(objs[i])) /\ objs[i].mark = EmptyStr
         THEN objs[i]
         ELSE scanLastThroughMarker(objs, existed, i - 1)

RECURSIVE scanLastSkipFirst(_, _, _)
scanLastSkipFirst(objs, existed, i) ==
    IF i < 2 THEN Nil
    ELSE IF contains(existed, Version(objs[i]))
         THEN IF objs[i].mark = EmptyStr THEN objs[i]
              ELSE IF objs[i].mark = delMarkFullObject THEN Nil
              ELSE scanLastSkipFirst(objs, existed, i - 1)
         ELSE scanLastSkipFirst(objs, existed, i - 1)

RECURSIVE scanLast(_, _, _)
scanLast(objs, existed, i) ==
    IF i < 1 THEN Nil
    ELSE IF contains(existed, Version(objs[i]))
         THEN IF objs[i].mark = EmptyStr THEN objs[i]
              ELSE IF objs[i].mark = delMarkFullObject THEN Nil
              ELSE scanLast(objs, existed, i - 1)
         ELSE scanLast(objs, existed, i - 1)

getLastThroughMarker(v) ==
    IF Len(v.objects) = 0 THEN Nil
    ELSE With(sort(v), LAMBDA s :
         With(getExistedVersions(s), LAMBDA existed :
             scanLastThroughMarker(s.objects, existed, Len(s.objects))))

getLastSkipFirst(v) ==
    IF Len(v.objects) = 0 THEN Nil
    ELSE With(sort(v), LAMBDA s :
         With(getExistedVersions(s), LAMBDA existed :
             scanLastSkipFirst(s.objects, existed, Len(s.objects))))

\* variant that answers with the first eligible version whatever mark it
\* carries, the full-object mark excepted
RECURSIVE scanLastMarkedToo(_, _, _)
scanLastMarkedToo(objs, existed, i) ==
    IF i < 1 THEN Nil
    ELSE IF contains(existed, Version(objs[i]))
         THEN IF objs[i].mark = delMarkFullObject THEN Nil ELSE objs[i]
         ELSE scanLastMarkedToo(objs, existed, i - 1)

getLastMarkedToo(v) ==
    IF Len(v.objects) = 0 THEN Nil
    ELSE With(sort(v), LAMBDA s :
         With(getExistedVersions(s), LAMBDA existed :
             scanLastMarkedToo(s.objects, existed, Len(s.objects))))

getLast(v) ==
    IF Len(v.objects) = 0 THEN Nil
    ELSE With(sort(v), LAMBDA s :
         With(getExistedVersions(s), LAMBDA existed :
             scanLast(s.objects, existed, Len(s.objects))))

\* variant that filters the versions in the order they were appended
getFilteredUnsorted(v) ==
    IF Len(v.objects) = 0 THEN << >>
    ELSE With(getExistedVersions(v), LAMBDA existed :
             SelectSeq(v.objects,
                 LAMBDA o : contains(existed, Version(o))
                            /\ (o.mark = delMarkFullObject \/ o.mark = EmptyStr)))

getFiltered(v) ==
    IF Len(v.objects) = 0 THEN << >>
    ELSE With(sort(v), LAMBDA s :
         With(getExistedVersions(s), LAMBDA existed :
             SelectSeq(s.objects,
                 LAMBDA o : contains(existed, Version(o))
                            /\ (o.mark = delMarkFullObject \/ o.mark = EmptyStr))))

getAddHeader(v) == joinVersions(v.addList)
getDelHeader(v) == joinVersions(v.delList)

isEmpty(v) == Len(v.objects) = 0
isAddListEmpty(v) == Len(v.addList) = 0

\* unversioned() lives in a file that is not part of src/: every prior
\* version marked "unversioned", in the order of v.objects.
unversioned(v) == SelectSeq(v.objects, LAMBDA o : o.unver)

\* ------------------------------------------------- write-time header merge
\* header: [add, del, mark, unver]; the result is the updated header and
\* the ids returned for best-effort physical deletion.
emptyHeader == [add |-> EmptyStr, del |-> EmptyStr, mark |-> EmptyStr, unver |-> FALSE]

versionsOfNone(objs) == << >>

RECURSIVE versionsOf(_)
versionsOf(objs) ==
    IF Len(objs) = 0 THEN << >>
    ELSE <<Version(Head(objs))>> \o versionsOf(Tail(objs))

RECURSIVE idsOf(_)
idsOf(objs) ==
    IF Len(objs) = 0 THEN << >>
    ELSE <<Head(objs).id>> \o idsOf(Tail(objs))

\* variant that, with versioning enabled, returns every prior version for
\* deletion
updateCRDT2PSetHeadersDeletePrior(header, versions, versioningEnabled) ==
    LET h0 == IF ~versioningEnabled THEN [header EXCEPT !.unver = TRUE] ELSE header
    IN  IF isEmpty(versions) THEN [header |-> h0, idsToDelete |-> << >>]
        ELSE
        LET h1 == IF ~isAddListEmpty(versions)
                  THEN [h0 EXCEPT !.add = getAddHeader(versions)] ELSE h0
            versionsDeletedStr == getDelHeader(versions)
        IN  IF versioningEnabled
            THEN LET delAttr == h1.del
                     newDel == IF Len(delAttr) # 0
                               THEN IF Len(versionsDeletedStr) # 0
                                    THEN versionsDeletedStr \o <<Comma>> \o delAttr
                                    ELSE delAttr
                               ELSE IF Len(versionsDeletedStr) # 0
                                    THEN versionsDeletedStr
                                    ELSE h1.del
                 IN  [header |-> [h1 EXCEPT !.del = newDel],
                      idsToDelete |-> idsOf(versions.objects)]
            ELSE LET unv == unversioned(versions)
                     additionalDel == joinVersions(versionsOf(unv))
                     delStr == IF Len(additionalDel) # 0
                               THEN IF Len(versionsDeletedStr) # 0
                                    THEN versionsDeletedStr \o <<Comma>> \o additionalDel
                                    ELSE additionalDel
                               ELSE versionsDeletedStr
                 IN  [header |-> IF Len(delStr) # 0 THEN [h1 EXCEPT !.del = delStr] ELSE h1,
                      idsToDelete |-> idsOf(unv)]

updateCRDT2PSetHeaders(header, versions, versioningEnabled) ==
    LET h0 == IF ~versioningEnabled THEN [header EXCEPT !.unver = TRUE] ELSE header
    IN  IF isEmpty(versions) THEN [header |-> h0, idsToDelete |-> << >>]
        ELSE
        LET h1 == IF ~isAddListEmpty(versions)
                  THEN [h0 EXCEPT !.add = getAddHeader(versions)] ELSE h0
            versionsDeletedStr == getDelHeader(versions)
        IN  IF versioningEnabled
            THEN LET delAttr == h1.del
                     newDel == IF Len(delAttr) # 0
                               THEN IF Len(versionsDeletedStr) # 0
                                    THEN versionsDeletedStr \o <<Comma>> \o delAttr
                                    ELSE delAttr
                               ELSE IF Len(versionsDeletedStr) # 0
                                    THEN versionsDeletedStr
                                    ELSE h1.del
                 IN  [header |-> [h1 EXCEPT !.del = newDel], idsToDelete |-> << >>]
            ELSE LET unv == unversioned(versions)
                     additionalDel == joinVersions(versionsOf(unv))
                     delStr == IF Len(additionalDel) # 0
                               THEN IF Len(versionsDeletedStr) # 0
                                    THEN versionsDeletedStr \o <<Comma>> \o additionalDel
                                    ELSE additionalDel
                               ELSE versionsDeletedStr
                 IN  [header |-> IF Len(delStr) # 0 THEN [h1 EXCEPT !.del = delStr] ELSE h1,
                      idsToDelete |-> idsOf(unv)]

\* formRawObject + pool.PutObject: the stored object carries the merged
\* headers; id and creation epoch are assigned by the backend.
formObject(id, ep, name, header) ==
    [id |-> id, name |-> name, epoch |-> ep, add |-> header.add, del |-> header.del,
     mark |-> header.mark, unver |-> header.unver, isDir |-> FALSE]

\* ---------------------------------------------------------------- state
VARIABLES
    store,      \* backend: id -> stored object (the ids put so far and not removed)
    epoch,      \* current backend epoch
    phase,      \* "write" while versions are written, "read" once a reader folds,
                \* "merged" once a header merge was looked at
    vs,         \* the reader's objectVersions
    foldLog,    \* ids folded into vs, in fold order
    res,        \* result of the reader's last getLast call
    removed,    \* ids tombstoned on the backend
    versioning, \* the bucket's versioning setting
    objCache,   \* object-metadata cache: the ids whose metadata is cached
    namesCache, \* name cache of the key: the cached id, 0 when absent
    proc,       \* per request handler: the request in flight and its locals
    hist,       \* history: what the claims need to know about the past
    listsCache, \* listing cache: cache key -> ids found / objects listed
    listing,    \* the listing call being answered: its parameters and result
    pager,      \* a client listing page by page: what it asked and got so far
    merged      \* the last header merge looked at: its arguments and results

foldVars == <<phase, vs, foldLog, res, merged>>
listVars == <<listsCache, listing, pager>>
sysVars == <<removed, versioning, objCache, namesCache, proc, hist, listsCache, listing, pager>>
vars == <<store, epoch, phase, vs, foldLog, res, removed, versioning, objCache,
          namesCache, proc, hist, listsCache, listing, pager, merged>>

NoListing == [op |-> "none"]
NoPager == [op |-> "none"]
NoMerge == [done |-> FALSE]

\* fold the objects of the id set S in ascending id order
RECURSIVE foldSet(_, _, _)
foldSet(v, st, S) ==
    IF S = {} THEN v
    ELSE With(CHOOSE x \in S : \A y \in S : x <= y, LAMBDA i :
         With(appendVersion(v, st[i]), LAMBDA w : foldSet(w, st, S \ {i})))

\* headers a request hands to objectPut
IncomingHeaders(prior, enabled) ==
    {emptyHeader}
    \cup (IF enabled THEN {[emptyHeader EXCEPT !.mark = delMarkFullObject]} ELSE {})
    \cup (IF enabled
          THEN {[emptyHeader EXCEPT !.del = vid, !.mark = vid] :
                    vid \in Range(getExistedVersions(prior))}
          ELSE {})

FoldInit ==
    /\ store = << >>
    /\ epoch = 1
    /\ phase = "write"
    /\ vs = newObjectVersions(KeyName)
    /\ foldLog = << >>
    /\ res = Nil
    /\ removed = {}
    /\ versioning = FALSE
    /\ objCache = {}
    /\ namesCache = 0
    /\ proc = << >>
    /\ hist = << >>
    /\ listsCache = << >>
    /\ listing = NoListing
    /\ pager = NoPager
    /\ merged = NoMerge

\* a write of the key: headVersions saw the objects S (a head that fails
\* skips its id), the headers are merged, the backend assigns id and epoch
WriteVersion ==
    /\ phase = "write"
    /\ \E id \in IDs \ DOMAIN store, S \in SUBSET (DOMAIN store),
          enabled \in BOOLEAN, ep \in {epoch, epoch + 1} :
         /\ ep <= MaxEpoch
         /\ LET prior == foldSet(newObjectVersions(KeyName), store, S)
            IN  \E hdr \in IncomingHeaders(prior, enabled) :
                  LET m == updateCRDT2PSetHeaders(hdr, prior, enabled)
                  IN  store' = [i \in DOMAIN store \cup {id} |->
                                   IF i = id THEN formObject(id, ep, KeyName, m.header)
                                   ELSE store[i]]
         /\ epoch' = ep
    /\ UNCHANGED <<phase, vs, foldLog, res, merged>>
    /\ UNCHANGED sysVars

StartRead ==
    /\ phase = "write"
    /\ DOMAIN store # {}
    /\ phase' = "read"
    /\ UNCHANGED <<store, epoch, vs, foldLog, res, merged>>
    /\ UNCHANGED sysVars

Fold ==
    /\ phase = "read"
    /\ Len(foldLog) < MaxFolds
    /\ \E id \in DOMAIN store :
         /\ vs' = appendVersion(vs, store[id])
         /\ foldLog' = Append(foldLog, id)
    /\ UNCHANGED <<store, epoch, phase, res, merged>>
    /\ UNCHANGED sysVars

GetLast ==
    /\ phase = "read"
    /\ ~vs.isSorted
    /\ Len(vs.objects) > 0
    /\ vs' = sort(vs)
    /\ res' = getLast(vs)
    /\ UNCHANGED <<store, epoch, phase, foldLog, merged>>
    /\ UNCHANGED sysVars

FoldNext == WriteVersion \/ StartRead \/ Fold \/ GetLast

FoldSpec == FoldInit /\ [][FoldNext]_vars

\* headers a caller of objectPut may hand in: none, the full-object
\* delete-mark, or a del header and delete-mark naming a version id
HeadersIn ==
    {emptyHeader, [emptyHeader EXCEPT !.mark = delMarkFullObject]}
    \cup {[emptyHeader EXCEPT !.del = <<vid>>, !.mark = <<vid>>] : vid \in IDs}

\* updateCRDT2PSetHeaders applied to the versions headVersions folded from
\* the objects S, under either versioning setting
MergeHeaders ==
    /\ phase = "write"
    /\ \E S \in SUBSET (DOMAIN store), header \in HeadersIn, versioningEnabled \in BOOLEAN :
         \E versions \in {foldSet(newObjectVersions(KeyName), store, S)} :
           merged' = [done |-> TRUE, header |-> header, versions |-> versions,
                      versioningEnabled |-> versioningEnabled,
                      out |-> updateCRDT2PSetHeaders(header, versions, versioningEnabled)]
    /\ phase' = "merged"
    /\ UNCHANGED <<store, epoch, vs, foldLog, res>>
    /\ UNCHANGED sysVars

MergeNext == WriteVersion \/ MergeHeaders

MergeSpec == FoldInit /\ [][MergeNext]_vars

\* ------------------------------------------------------ request handlers
NumProcs == 2
Procs == 1..NumProcs
\* the handlers that serve HEAD requests
NumReaders == 1
Readers == 1..NumReaders

\* getLast(FromUnversioned()): the option lives in a file that is not part
\* of src/; per the design text the scan is the one of getLast with the
\* "unversioned" filter on the versions it may return.
RECURSIVE scanLastUnversioned(_, _, _)
scanLastUnversioned(objs, existed, i) ==
    IF i < 1 THEN Nil
    ELSE IF contains(existed, Version(objs[i]))
         THEN IF objs[i].mark = EmptyStr
              THEN IF objs[i].unver THEN objs[i]
                   ELSE scanLastUnversioned(objs, existed, i - 1)
              ELSE IF objs[i].mark = delMarkFullObject THEN Nil
              ELSE scanLastUnversioned(objs, existed, i - 1)
         ELSE scanLastUnversioned(objs, existed, i - 1)

getLastUnversioned(v) ==
    IF Len(v.objects) = 0 THEN Nil
    ELSE With(sort(v), LAMBDA s :
         With(getExistedVersions(s), LAMBDA existed :
             scanLastUnversioned(s.objects, existed, Len(s.objects))))

NoRet == [kind |-> "none", id |-> 0]
Ok(id) == [kind |-> "ok", id |-> id]
Err(kind) == [kind |-> kind, id |-> 0]

idleProc ==
    [op |-> "idle", pc |-> "idle", arg |-> 0, enabled |-> FALSE, pending |-> {},
     v |-> newObjectVersions(KeyName), hdr |-> emptyHeader,
     newId |-> 0, todo |-> << >>, ret |-> NoRet, after |-> FALSE, seen |-> {},
     since |-> 0, failed |-> {}, quiet |-> FALSE]

\* ids objectSearchByName finds: the objects of the key not tombstoned
Live == DOMAIN store \ removed

WriteOps == {"put", "delkey", "delver"}
Free(q) == proc[q].pc \in {"idle", "done"}
Writing(q) == proc[q].op \in WriteOps /\ ~Free(q)
\* requests that will still ask the backend for a new object id
AwaitingId(q) == proc[q].op \in WriteOps /\ proc[q].pc \in {"chk", "heads"}

CanStartWrite ==
    Cardinality(DOMAIN store) + Cardinality({q \in Procs : AwaitingId(q)}) < MaxId

ObjectIds(v) == { v.objects[i].id : i \in 1..Len(v.objects) }

\* the handler returns ret; only the request, its answer and (for the
\* claims) the ids it had folded are kept
DoneSeen(p, ret) ==
    [idleProc EXCEPT !.op = proc[p].op, !.arg = proc[p].arg, !.pc = "done",
                     !.ret = ret, !.seen = ObjectIds(proc[p].v),
                     !.after = proc[p].after, !.since = proc[p].since,
                     !.failed = proc[p].failed, !.quiet = proc[p].quiet]

Done(p, ret) == [idleProc EXCEPT !.op = proc[p].op, !.arg = proc[p].arg,
                                 !.pc = "done", !.ret = ret, !.after = proc[p].after,
                                 !.since = proc[p].since, !.quiet = proc[p].quiet]

SysInit ==
    /\ store = << >>
    /\ epoch = 1
    /\ phase = "write"
    /\ vs = newObjectVersions(KeyName)
    /\ foldLog = << >>
    /\ res = Nil
    /\ removed = {}
    /\ versioning \in BOOLEAN
    /\ objCache = {}
    /\ namesCache = 0
    /\ proc = [p \in Procs |-> idleProc]
    /\ hist = [overlap |-> FALSE, deleted |-> {}, lastPut |-> 0, prevPut |-> 0,
               prior |-> << >>]
    /\ listsCache = << >>
    /\ listing = NoListing
    /\ pager = NoPager
    /\ merged = NoMerge

\* PutBucketVersioning, reduced to the setting the object code reads
\* through isVersioningEnabled; the setting is only ever switched on here.
PutBucketVersioning ==
    /\ ~versioning
    /\ versioning' = TRUE
    /\ UNCHANGED <<store, epoch, removed, objCache, namesCache, proc, hist>>
    /\ UNCHANGED foldVars
    /\ UNCHANGED listVars

\* objectPut up to the search of headVersions; hdr is the header the
\* request carries (a plain PUT, or the delete of the whole key)
StartWrite(p, op, hdr) ==
    /\ Free(p)
    /\ CanStartWrite
    /\ proc' = [proc EXCEPT ![p] =
                   [idleProc EXCEPT !.op = op, !.pc = "heads", !.hdr = hdr,
                                    !.enabled = versioning, !.pending = Live]]
    /\ hist' = [hist EXCEPT !.overlap = @ \/ \E q \in Procs \ {p} : Writing(q)]
    /\ UNCHANGED <<store, epoch, removed, versioning, objCache, namesCache>>
    /\ UNCHANGED foldVars
    /\ UNCHANGED listVars

StartPut(p) == StartWrite(p, "put", emptyHeader)

StartDeleteKey(p) ==
    /\ versioning
    /\ StartWrite(p, "delkey", [emptyHeader EXCEPT !.mark = delMarkFullObject])

\* delete of one version: checkVersionsExist up to the search of its
\* headVersions
StartDeleteVersion(p, vid) ==
    /\ Free(p)
    /\ versioning
    /\ CanStartWrite
    /\ proc' = [proc EXCEPT ![p] =
                   IF Live = {}
                   THEN [idleProc EXCEPT !.op = "delver", !.arg = vid, !.pc = "done",
                                         !.ret = Err("NoSuchKey")]
                   ELSE [idleProc EXCEPT !.op = "delver", !.arg = vid, !.pc = "chk",
                                         !.pending = Live]]
    /\ hist' = [hist EXCEPT !.overlap = @ \/ (Live # {} /\ \E q \in Procs \ {p} : Writing(q))]
    /\ UNCHANGED <<store, epoch, removed, versioning, objCache, namesCache>>
    /\ UNCHANGED foldVars
    /\ UNCHANGED listVars

\* variant of the loop round in which a failed head fails the request
HeadOneAborts(p) ==
    /\ proc[p].pc \in {"chk", "heads"}
    /\ \E id \in proc[p].pending :
         /\ proc[p].op \in WriteOps => \A other \in proc[p].pending : id <= other
         /\ IF id \in removed
            THEN /\ proc' = [proc EXCEPT ![p] = Done(p, Err("backend"))]
                 /\ UNCHANGED objCache
            ELSE /\ proc' = [proc EXCEPT ![p].pending = @ \ {id},
                                         ![p].v = appendVersion(@, store[id])]
                 /\ objCache' = objCache \cup {id}
    /\ UNCHANGED <<store, epoch, removed, versioning, namesCache, hist>>
    /\ UNCHANGED foldVars
    /\ UNCHANGED listVars

\* one round of the loop of headVersions: head, cache, fold.  The search
\* result of a writing request is walked in ascending id order, the one of
\* a reading request in any order.  The ids whose head failed are kept in
\* failed for the length of the loop.
HeadOne(p) ==
    /\ proc[p].pc \in {"chk", "heads"}
    /\ \E id \in proc[p].pending :
         /\ proc[p].op \in WriteOps => \A other \in proc[p].pending : id <= other
         /\ IF id \in removed
            THEN /\ proc' = [proc EXCEPT ![p].pending = @ \ {id},
                                         ![p].failed = @ \cup {id}]
                 /\ UNCHANGED objCache
            ELSE /\ proc' = [proc EXCEPT ![p].pending = @ \ {id},
                                         ![p].v = appendVersion(@, store[id])]
                 /\ objCache' = objCache \cup {id}
    /\ UNCHANGED <<store, epoch, removed, versioning, namesCache, hist>>
    /\ UNCHANGED foldVars
    /\ UNCHANGED listVars

\* checkVersionsExist after headVersions, then objectPut of the marker up
\* to the search of its headVersions
CheckVersionsExist(p) ==
    /\ proc[p].pc = "chk"
    /\ proc[p].pending = {}
    /\ proc' = [proc EXCEPT ![p] =
                   IF ~contains(getExistedVersions(proc[p].v), <<proc[p].arg>>)
                   THEN Done(p, Err("InvalidVersion"))
                   ELSE [@ EXCEPT !.pc = "heads", !.enabled = versioning,
                                  !.pending = Live, !.failed = {},
                                  !.v = newObjectVersions(KeyName),
                                  !.hdr = [emptyHeader EXCEPT !.del = <<proc[p].arg>>,
                                                              !.mark = <<proc[p].arg>>]]]
    /\ UNCHANGED <<store, epoch, removed, versioning, objCache, namesCache, hist>>
    /\ UNCHANGED foldVars
    /\ UNCHANGED listVars

\* objectPut: header merge and pool.PutObject
PutObject(p) ==
    /\ proc[p].op \in WriteOps
    /\ proc[p].pc = "heads"
    /\ proc[p].pending = {}
    /\ \E id \in IDs \ DOMAIN store, ep \in {epoch, epoch + 1} :
         /\ ep <= MaxEpoch
         /\ LET m == updateCRDT2PSetHeaders(proc[p].hdr, proc[p].v, proc[p].enabled)
            IN  /\ store' = [i \in DOMAIN store \cup {id} |->
                                IF i = id THEN formObject(id, ep, KeyName, m.header)
                                ELSE store[i]]
                /\ proc' = [proc EXCEPT ![p].pc = "postput", ![p].newId = id,
                                        ![p].todo = m.idsToDelete, ![p].failed = {}]
         /\ epoch' = ep
         /\ hist' = [hist EXCEPT !.lastPut = id, !.prevPut = hist.lastPut,
                                 !.prior = [i \in DOMAIN store \cup {id} |->
                                               IF i = id THEN ObjectIds(proc[p].v)
                                               ELSE hist.prior[i]]]
    /\ UNCHANGED <<removed, versioning, objCache, namesCache>>
    /\ UNCHANGED foldVars
    /\ UNCHANGED listVars

\* objectPut returns, or the delete of one version goes on to objectDelete
AfterCleanup(p) ==
    IF proc[p].op = "delver"
    THEN [proc[p] EXCEPT !.pc = "del", !.todo = << >>, !.v = newObjectVersions(KeyName)]
    ELSE Done(p, Ok(proc[p].newId))

\* listing cache keys are <<method, prefix, delimiter>>; the clean operation
\* lives in the cache package, which is not part of src/: per the design
\* text it drops every entry that could contain the object name, that is
\* every entry whose prefix the name starts with.
CleanCacheEntriesContainingObject(cache, objectName) ==
    [k \in { c \in DOMAIN cache : ~HasPrefix(objectName, c[2]) } |-> cache[k]]

\* objectPut after the put: cache invalidation for a full-object
\* delete-mark, head of the new object, cache fill, listing cache clean
PostPut(p) ==
    /\ proc[p].pc = "postput"
    /\ LET last == getLast(proc[p].v)
           inval == IF proc[p].hdr.mark = delMarkFullObject /\ last # Nil
                    THEN objCache \ {last.id} ELSE objCache
       IN  IF proc[p].newId \in removed
           THEN /\ objCache' = inval
                /\ proc' = [proc EXCEPT ![p] = Done(p, Err("backend"))]
                /\ UNCHANGED listsCache
           ELSE /\ objCache' = inval \cup {proc[p].newId}
                /\ listsCache' = CleanCacheEntriesContainingObject(listsCache, KeyName)
                /\ proc' = [proc EXCEPT ![p] =
                               IF proc[p].todo = << >> THEN AfterCleanup(p)
                               ELSE [@ EXCEPT !.pc = "cleanup",
                                              !.v = newObjectVersions(KeyName)]]
    /\ UNCHANGED <<store, epoch, removed, versioning, namesCache, hist, listing, pager>>
    /\ UNCHANGED foldVars

\* objectDelete: the cache entry is dropped, then the tombstone is put
objectDelete(id) ==
    /\ objCache' = objCache \ {id}
    /\ removed' = removed \cup {id}

\* one round of the best-effort deletion loop of objectPut
Cleanup(p) ==
    /\ proc[p].pc = "cleanup"
    /\ objectDelete(Head(proc[p].todo))
    /\ proc' = [proc EXCEPT ![p] =
                   IF Len(proc[p].todo) = 1 THEN AfterCleanup(p)
                   ELSE [@ EXCEPT !.todo = Tail(@)]]
    /\ UNCHANGED <<store, epoch, versioning, namesCache, hist>>
    /\ UNCHANGED foldVars
    /\ UNCHANGED listVars

\* variant of a failing round that gives up and fails the request
CleanupFailsAborts(p) ==
    /\ proc[p].pc = "cleanup"
    /\ objCache' = objCache \ {Head(proc[p].todo)}
    /\ proc' = [proc EXCEPT ![p] = Done(p, Err("backend"))]
    /\ UNCHANGED <<store, epoch, removed, versioning, namesCache, hist>>
    /\ UNCHANGED foldVars
    /\ UNCHANGED listVars

\* one round of the deletion loop in which a step fails: either the
\* backend refuses the delete (the cache entry is gone, the object stays),
\* or the object is deleted and the deletion of its tagging fails; the
\* failure is logged and the loop goes on
CleanupFails(p) ==
    /\ proc[p].pc = "cleanup"
    /\ \E failing \in {"objectDelete", "DeleteObjectTagging"} :
         IF failing = "objectDelete"
         THEN /\ objCache' = objCache \ {Head(proc[p].todo)}
              /\ UNCHANGED removed
         ELSE /\ ~proc[p].enabled
              /\ objectDelete(Head(proc[p].todo))
    /\ proc' = [proc EXCEPT ![p] =
                   IF Len(proc[p].todo) = 1 THEN AfterCleanup(p)
                   ELSE [@ EXCEPT !.todo = Tail(@)]]
    /\ UNCHANGED <<store, epoch, versioning, namesCache, hist>>
    /\ UNCHANGED foldVars
    /\ UNCHANGED listVars

\* delete of one version: objectDelete of the version named
DeleteVersionObject(p) ==
    /\ proc[p].pc = "del"
    /\ objectDelete(proc[p].arg)
    /\ IF proc[p].arg \in removed
       THEN /\ proc' = [proc EXCEPT ![p] = Done(p, Err("backend"))]
            /\ UNCHANGED hist
       ELSE /\ proc' = [proc EXCEPT ![p] = Done(p, Ok(proc[p].arg))]
            /\ hist' = [hist EXCEPT !.deleted = @ \cup {proc[p].arg}]
    /\ UNCHANGED <<store, epoch, versioning, namesCache>>
    /\ UNCHANGED foldVars
    /\ UNCHANGED listVars

\* headLastVersionIfNotDeleted up to the search of headVersions
\* the last write of the key was a delete of the whole key, and it and
\* every other write have returned
NoWriteInFlight == \A q \in Procs : ~Writing(q)

KeyDeleted ==
    /\ hist.lastPut # 0
    /\ store[hist.lastPut].mark = delMarkFullObject
    /\ \A q \in Procs : ~Writing(q)

StartHead(p) ==
    /\ Free(p)
    /\ p \in Readers
    /\ UNCHANGED hist
    /\ proc' = [proc EXCEPT ![p] =
                   IF namesCache # 0 /\ namesCache \in objCache
                   THEN [idleProc EXCEPT !.op = "head", !.pc = "done",
                                         !.ret = Ok(namesCache),
                                         !.since = hist.lastPut,
                                         !.after = KeyDeleted,
                                         !.quiet = NoWriteInFlight]
                   ELSE IF Live = {}
                   THEN [idleProc EXCEPT !.op = "head", !.pc = "done",
                                         !.ret = Err("NoSuchKey"),
                                         !.since = hist.lastPut,
                                         !.after = KeyDeleted,
                                         !.quiet = NoWriteInFlight]
                   ELSE [idleProc EXCEPT !.op = "head", !.pc = "heads",
                                         !.pending = Live,
                                         !.since = hist.lastPut,
                                         !.after = KeyDeleted,
                                         !.quiet = NoWriteInFlight]]
    /\ UNCHANGED <<store, epoch, removed, versioning, objCache, namesCache>>
    /\ UNCHANGED foldVars
    /\ UNCHANGED listVars

\* headLastVersionIfNotDeleted after headVersions
HeadReturn(p) ==
    /\ proc[p].op = "head"
    /\ proc[p].pc = "heads"
    /\ proc[p].pending = {}
    /\ LET lastVersion == getLast(proc[p].v)
       IN  IF lastVersion = Nil
           THEN /\ proc' = [proc EXCEPT ![p] = DoneSeen(p, Err("NoSuchKey"))]
                /\ UNCHANGED namesCache
           ELSE /\ proc' = [proc EXCEPT ![p] = DoneSeen(p, Ok(lastVersion.id))]
                /\ namesCache' = lastVersion.id
    /\ UNCHANGED <<store, epoch, removed, versioning, objCache, hist>>
    /\ UNCHANGED foldVars
    /\ UNCHANGED listVars

\* headVersion with the version id "null", up to the search
StartHeadNull(p) ==
    /\ Free(p)
    /\ p \in Readers
    /\ UNCHANGED hist
    /\ proc' = [proc EXCEPT ![p] =
                   IF Live = {}
                   THEN [idleProc EXCEPT !.op = "headnull", !.pc = "done",
                                         !.ret = Err("NoSuchKey"),
                                         !.after = hist.deleted # {}]
                   ELSE [idleProc EXCEPT !.op = "headnull", !.pc = "heads",
                                         !.pending = Live,
                                         !.after = hist.deleted # {}]]
    /\ UNCHANGED <<store, epoch, removed, versioning, objCache, namesCache>>
    /\ UNCHANGED foldVars
    /\ UNCHANGED listVars

HeadNullReturn(p) ==
    /\ proc[p].op = "headnull"
    /\ proc[p].pc = "heads"
    /\ proc[p].pending = {}
    /\ LET objInfo == getLastUnversioned(proc[p].v)
       IN  proc' = [proc EXCEPT ![p] =
                       IF objInfo = Nil THEN DoneSeen(p, Err("NoSuchVersion"))
                       ELSE DoneSeen(p, Ok(objInfo.id))]
    /\ UNCHANGED <<store, epoch, removed, versioning, objCache, namesCache, hist>>
    /\ UNCHANGED foldVars
    /\ UNCHANGED listVars

\* headVersion with a version id: the cache lookup
StartHeadVersion(p, vid) ==
    /\ Free(p)
    /\ p \in Readers
    /\ UNCHANGED hist
    /\ proc' = [proc EXCEPT ![p] =
                   IF vid \in objCache
                   THEN [idleProc EXCEPT !.op = "headver", !.arg = vid, !.pc = "done",
                                         !.ret = Ok(vid),
                                         !.after = vid \in hist.deleted]
                   ELSE [idleProc EXCEPT !.op = "headver", !.arg = vid, !.pc = "hvhead",
                                         !.after = vid \in hist.deleted]]
    /\ UNCHANGED <<store, epoch, removed, versioning, objCache, namesCache>>
    /\ UNCHANGED foldVars
    /\ UNCHANGED listVars

\* headVersion: objectHead after a cache miss
HeadVersionBackend(p) ==
    /\ proc[p].pc = "hvhead"
    /\ proc' = [proc EXCEPT ![p] =
                   IF proc[p].arg \in Live THEN [@ EXCEPT !.pc = "hvput"]
                   ELSE Done(p, Err("NoSuchVersion"))]
    /\ UNCHANGED <<store, epoch, removed, versioning, objCache, namesCache, hist>>
    /\ UNCHANGED foldVars
    /\ UNCHANGED listVars

\* headVersion: the metadata is put into the cache and returned
HeadVersionCache(p) ==
    /\ proc[p].pc = "hvput"
    /\ objCache' = objCache \cup {proc[p].arg}
    /\ proc' = [proc EXCEPT ![p] = Done(p, Ok(proc[p].arg))]
    /\ UNCHANGED <<store, epoch, removed, versioning, namesCache, hist>>
    /\ UNCHANGED foldVars
    /\ UNCHANGED listVars

Next ==
    \/ PutBucketVersioning
    \/ \E p \in Procs :
         \/ StartPut(p)
         \/ StartDeleteKey(p)
         \/ HeadOne(p)
         \/ PutObject(p)
         \/ PostPut(p)
         \/ Cleanup(p)
         \/ StartHead(p)
         \/ HeadReturn(p)

Spec == SysInit /\ [][Next]_vars

\* the requests of Spec over a backend whose deletes may fail
CleanupNext ==
    \/ Next
    \/ \E p \in Procs : CleanupFails(p)

CleanupSpec == SysInit /\ [][CleanupNext]_vars

DelNext ==
    \/ PutBucketVersioning
    \/ \E p \in Procs :
         \/ StartPut(p)
         \/ \E vid \in IDs : StartDeleteVersion(p, vid)
         \/ HeadOne(p)
         \/ CheckVersionsExist(p)
         \/ PutObject(p)
         \/ PostPut(p)
         \/ Cleanup(p)
         \/ DeleteVersionObject(p)
         \/ StartHeadNull(p)
         \/ HeadNullReturn(p)
         \/ \E vid \in IDs : StartHeadVersion(p, vid)
         \/ HeadVersionBackend(p)
         \/ HeadVersionCache(p)

DelSpec == SysInit /\ [][DelNext]_vars

\* ----------------------------------------------------------------- listing
\* characters of key names, numbered in byte order: / < 1 < 2 < a < b
Char == [slash |-> 1, one |-> 2, two |-> 3, a |-> 4, b |-> 5]

\* the keys "a/1", "a/2", "b" and the listing parameters requests draw from
Keys == { <<Char.a, Char.slash, Char.one>>, <<Char.a, Char.slash, Char.two>>, <<Char.b>> }
Prefixes == { EmptyStr, <<Char.a, Char.slash>> }
Delimiters == { EmptyStr, <<Char.slash>> }
MaxKeysBound == 2
NameMarkers == { EmptyStr, <<Char.a, Char.slash, Char.two>> }
IdMarkers == { EmptyStr, <<1>> }

\* objectInfoFromMeta(bkt, meta, prefix, delimiter) lives in a file that is
\* not part of src/.  Per the design text: nothing for a name outside the
\* prefix; a name whose remainder after the prefix contains the delimiter
\* becomes a directory entry named up through the first delimiter.
objectInfoFromMeta(meta, prefix, delimiter) ==
    IF ~HasPrefix(meta.name, prefix) THEN Nil
    ELSE LET tail == TrimPrefix(meta.name, prefix)
             index == Index(tail, delimiter)
         IN  IF Len(delimiter) > 0 /\ index >= 0
             THEN [meta EXCEPT !.isDir = TRUE,
                               !.name = prefix \o SubSeq(tail, 1, index + Len(delimiter))]
             ELSE meta

\* pool.SearchObject with the root filter and the common-prefix filter
objectSearch(prefix) ==
    { i \in DOMAIN store \ removed : HasPrefix(store[i].name, prefix) }

\* the ids of which objectFromObjectsCacheOrNeoFS yields the metadata: the
\* cached ones and the ones the backend can head
Fetched(ids) == { i \in ids : i \in objCache \/ i \notin removed }

CachePut(cache, key, val) ==
    [k \in DOMAIN cache \cup {key} |-> IF k = key THEN val ELSE cache[k]]

listMethod == "list"
listVersionsMethod == "listVersions"

\* the map of objectVersions by listed name, the two caches as the call
\* leaves them and the collaborators called
getAllObjectsVersions(prefix, delimiter) ==
    LET cacheKey == <<listMethod, prefix, EmptyStr>>
        cached == cacheKey \in DOMAIN listsCache
    IN  With(IF cached THEN listsCache[cacheKey] ELSE objectSearch(prefix), LAMBDA ids :
        With({ objectInfoFromMeta(store[i], prefix, delimiter) : i \in Fetched(ids) } \ {Nil},
             LAMBDA infos :
            [versions |-> [n \in { oi.name : oi \in infos } |->
                              foldSet(newObjectVersions(n),
                                      [i \in { oi.id : oi \in infos } |->
                                          objectInfoFromMeta(store[i], prefix, delimiter)],
                                      { oi.id : oi \in { x \in infos : x.name = n } })],
             listsCache |-> IF cached THEN listsCache
                            ELSE CachePut(listsCache, cacheKey, ids),
             objCache |-> objCache \cup Fetched(ids),
             calls |-> {"listsCache.Get"}
                       \cup (IF cached THEN {} ELSE {"objectSearch", "listsCache.Put"})
                       \cup (IF ids = {} THEN {} ELSE {"objCache.Get"})
                       \cup (IF ids \subseteq objCache THEN {} ELSE {"objectHead"})]))

\* sort.Slice by Name over objects of distinct names
sortByName(S) ==
    [i \in 1..Cardinality(S) |->
        CHOOSE x \in S : Cardinality({ y \in S : StrLess(y.name, x.name) }) = i - 1]

\* sort.Strings
sortStrings(S) ==
    [i \in 1..Cardinality(S) |->
        CHOOSE x \in S : Cardinality({ y \in S : StrLess(y, x) }) = i - 1]

listSortedObjects(prefix, delimiter) ==
    With(getAllObjectsVersions(prefix, delimiter), LAMBDA all :
    With({ getLast(v) : v \in { all.versions[n] : n \in DOMAIN all.versions } } \ {Nil},
         LAMBDA objects :
        [objects |-> sortByName(objects), listsCache |-> all.listsCache,
         objCache |-> all.objCache, calls |-> all.calls]))

\* variant that keeps the object named startAfter
trimAfterObjectNameInclusive(startAfter, objects) ==
    LET hits == { i \in 1..Len(objects) : ~StrLess(objects[i].name, startAfter) }
    IN  IF hits = {} THEN << >>
        ELSE SubSeq(objects, CHOOSE i \in hits : \A j \in hits : i <= j, Len(objects))

trimAfterObjectName(startAfter, objects) ==
    IF Len(objects) # 0 /\ ~StrLess(startAfter, objects[Len(objects)].name) THEN << >>
    ELSE LET hits == { i \in 1..Len(objects) : StrLess(startAfter, objects[i].name) }
         IN  IF hits = {} THEN << >>
             ELSE SubSeq(objects, CHOOSE i \in hits : \A j \in hits : i <= j, Len(objects))

trimAfterObjectID(id, objects) ==
    IF Len(objects) # 0 /\ Version(objects[Len(objects)]) = id THEN << >>
    ELSE LET hits == { i \in 1..Len(objects) : Version(objects[i]) = id }
         IN  IF hits = {} THEN << >>
             ELSE SubSeq(objects, (CHOOSE i \in hits : \A j \in hits : i <= j) + 1,
                         Len(objects))

NamesOf(objects) == [i \in 1..Len(objects) |-> objects[i].name]

triageObjectsAllObjects(allObjects) ==
    [prefixes |-> << >>, objects |-> allObjects]

triageObjects(allObjects) ==
    [prefixes |-> NamesOf(SelectSeq(allObjects, LAMBDA ov : ov.isDir)),
     objects |-> SelectSeq(allObjects, LAMBDA ov : ~ov.isDir)]

\* a flat listing result; next is NextMarker (V1) or NextContinuationToken (V2)
FlatResult(op, p, prefixes, objects, isTruncated, next, calls) ==
    [op |-> op, p |-> p, failed |-> FALSE, prefixes |-> prefixes, objects |-> objects,
     isTruncated |-> isTruncated, next |-> next, calls |-> calls]

\* truncation to max-keys and triage of the trimmed sequence; byName tells
\* which cursor is derived from the last element shown
flatPage(op, p, all, trimmed, byName) ==
    LET truncated == Len(trimmed) > p.maxKeys
        calls == {"GetBucketInfo"} \cup all.calls
    IN  With(IF truncated THEN SubSeq(trimmed, 1, p.maxKeys) ELSE trimmed, LAMBDA page :
        With(triageObjects(page), LAMBDA t :
            [listsCache |-> all.listsCache, objCache |-> all.objCache,
             result |-> IF Len(all.objects) = 0
                        THEN FlatResult(op, p, << >>, << >>, FALSE, EmptyStr, calls)
                        ELSE FlatResult(op, p, t.prefixes, t.objects, truncated,
                                        IF ~truncated THEN EmptyStr
                                        ELSE IF byName THEN page[Len(page)].name
                                        ELSE Version(page[Len(page)]),
                                        calls)]))

\* p: [prefix, delimiter, maxKeys, marker]
ListObjectsV1NoZeroCheck(p) ==
    With(listSortedObjects(p.prefix, p.delimiter), LAMBDA all :
        flatPage("V1", p, all,
                 IF p.marker # EmptyStr THEN trimAfterObjectName(p.marker, all.objects)
                 ELSE all.objects,
                 TRUE))

ListObjectsV1(p) ==
    IF p.maxKeys = 0
    THEN [listsCache |-> listsCache, objCache |-> objCache,
          result |-> FlatResult("V1", p, << >>, << >>, FALSE, EmptyStr, {})]
    ELSE ListObjectsV1NoZeroCheck(p)

\* p: [prefix, delimiter, maxKeys, token, startAfter]
ListObjectsV2(p) ==
    IF p.maxKeys = 0
    THEN [listsCache |-> listsCache, objCache |-> objCache,
          result |-> FlatResult("V2", p, << >>, << >>, FALSE, EmptyStr, {})]
    ELSE With(listSortedObjects(p.prefix, p.delimiter), LAMBDA all :
         With(IF p.token # EmptyStr THEN trimAfterObjectID(p.token, all.objects)
              ELSE all.objects, LAMBDA afterToken :
             flatPage("V2", p, all,
                      IF p.startAfter # EmptyStr
                      THEN trimAfterObjectName(p.startAfter, afterToken)
                      ELSE afterToken,
                      FALSE)))

RECURSIVE filteredOf(_, _)
filteredOf(versions, names) ==
    IF Len(names) = 0 THEN << >>
    ELSE getFiltered(versions[Head(names)]) \o filteredOf(versions, Tail(names))

triageVersions(objVersions) ==
    [version |-> SelectSeq(objVersions, LAMBDA o : o.object.mark # delMarkFullObject),
     deleteMarker |-> SelectSeq(objVersions, LAMBDA o : o.object.mark = delMarkFullObject)]

\* ListObjectVersions from the marker loop on.  With failed set the call
\* has panicked on an index out of range and has no result.
versionsPage(p, allObjects, calls) ==
    LET hits == { i \in 1..Len(allObjects) :
                     /\ ~StrLess(allObjects[i].name, p.keyMarker)
                     /\ ~StrLess(Version(allObjects[i]), p.versionIDMarker) }
    IN  With(triageObjects(IF hits = {} THEN allObjects
                           ELSE SubSeq(allObjects,
                                       CHOOSE i \in hits : \A j \in hits : i <= j,
                                       Len(allObjects))), LAMBDA t :
        With(Len(t.objects) > p.maxKeys, LAMBDA truncated :
        With(IF truncated THEN SubSeq(t.objects, 1, p.maxKeys) ELSE t.objects, LAMBDA page :
        With(triageVersions([i \in 1..Len(page) |->
                 [object |-> page[i],
                  isLatest |-> i = Len(page) \/ page[i + 1].name # page[i].name]]),
             LAMBDA tv :
            IF truncated /\ p.maxKeys - 1 < 0
            THEN [op |-> "versions", p |-> p, failed |-> TRUE, calls |-> calls]
            ELSE [op |-> "versions", p |-> p, failed |-> FALSE,
                  commonPrefixes |-> t.prefixes,
                  version |-> tv.version, deleteMarker |-> tv.deleteMarker,
                  isTruncated |-> truncated,
                  nextKeyMarker |-> IF truncated THEN t.objects[p.maxKeys + 1].name
                                    ELSE EmptyStr,
                  nextVersionIDMarker |-> IF truncated
                                          THEN Version(t.objects[p.maxKeys + 1])
                                          ELSE EmptyStr,
                  keyMarker |-> IF truncated THEN page[p.maxKeys].name ELSE EmptyStr,
                  versionIDMarker |-> IF truncated THEN Version(page[p.maxKeys])
                                      ELSE EmptyStr,
                  calls |-> calls]))))

\* p: [prefix, delimiter, maxKeys, keyMarker, versionIDMarker]
ListObjectVersions(p) ==
    LET cacheKey == <<listVersionsMethod, p.prefix, p.delimiter>>
    IN  IF cacheKey \in DOMAIN listsCache
        THEN [listsCache |-> listsCache, objCache |-> objCache,
              result |-> versionsPage(p, listsCache[cacheKey],
                                      {"GetBucketInfo", "listsCache.Get"})]
        ELSE With(getAllObjectsVersions(p.prefix, p.delimiter), LAMBDA all :
             With(sortStrings(DOMAIN all.versions), LAMBDA sortedNames :
             With(filteredOf(all.versions, sortedNames), LAMBDA allObjects :
                 [listsCache |-> CachePut(all.listsCache, cacheKey, allObjects),
                  objCache |-> all.objCache,
                  result |-> versionsPage(p, allObjects,
                                          {"GetBucketInfo", "listsCache.Get", "listsCache.Put"}
                                              \cup all.calls)])))

\* objectPut of the key name run to completion, no other request in
\* between; the backend assigns the id, its epoch does not advance while
\* the bucket is listed
objectPut(name, header) ==
    /\ Cardinality(DOMAIN store) < MaxId
    /\ \E id \in IDs \ DOMAIN store,
          found \in {{ i \in DOMAIN store \ removed : store[i].name = name }} :
        \E versions \in {foldSet(newObjectVersions(name), store, found)} :
        \E m \in {updateCRDT2PSetHeaders(header, versions, versioning)},
           last \in {getLast(versions)} :
         LET dropped == IF header.mark = delMarkFullObject /\ last # Nil
                        THEN {last.id} ELSE {}
             idsToDelete == { m.idsToDelete[i] : i \in 1..Len(m.idsToDelete) }
         IN  /\ store' = [i \in DOMAIN store \cup {id} |->
                             IF i = id THEN formObject(id, epoch, name, m.header)
                             ELSE store[i]]
             /\ objCache' = (((objCache \cup found) \ dropped) \cup {id}) \ idsToDelete
             /\ removed' = removed \cup idsToDelete
    /\ listsCache' = CleanCacheEntriesContainingObject(listsCache, name)
    /\ UNCHANGED <<epoch, versioning, namesCache, proc, hist, listing, pager>>
    /\ UNCHANGED foldVars

PutKey(name) ==
    /\ listing = NoListing
    /\ pager = NoPager
    /\ objectPut(name, emptyHeader)

DeleteKey(name) ==
    /\ listing = NoListing
    /\ pager = NoPager
    /\ versioning
    /\ objectPut(name, [emptyHeader EXCEPT !.mark = delMarkFullObject])

EnableVersioning ==
    /\ listing = NoListing
    /\ pager = NoPager
    /\ PutBucketVersioning

\* what a listing call leaves behind: the two caches as it filled them
Served(r) ==
    /\ listsCache' = r.listsCache
    /\ objCache' = r.objCache
    /\ UNCHANGED <<store, epoch, removed, versioning, namesCache, proc, hist>>
    /\ UNCHANGED foldVars

Answer(r) ==
    /\ listing' = r.result
    /\ Served(r)

\* the markers a request may carry; a request with max-keys 0 carries none
MarkersFor(maxKeys, markers) == IF maxKeys = 0 THEN {EmptyStr} ELSE markers

CallListObjectsV1 ==
    /\ listing = NoListing
    /\ pager = NoPager
    /\ UNCHANGED pager
    /\ \E prefix \in Prefixes, delimiter \in Delimiters, maxKeys \in 0..MaxKeysBound :
         \E marker \in MarkersFor(maxKeys, NameMarkers) :
           \E r \in {ListObjectsV1([prefix |-> prefix, delimiter |-> delimiter,
                                     maxKeys |-> maxKeys, marker |-> marker])} :
               Answer(r)

CallListObjectsV2 ==
    /\ listing = NoListing
    /\ pager = NoPager
    /\ UNCHANGED pager
    /\ \E prefix \in Prefixes, delimiter \in Delimiters, maxKeys \in 0..MaxKeysBound :
         \E token \in MarkersFor(maxKeys, IdMarkers),
            startAfter \in MarkersFor(maxKeys, NameMarkers) :
           /\ token = EmptyStr \/ startAfter = EmptyStr
           /\ \E r \in {ListObjectsV2([prefix |-> prefix, delimiter |-> delimiter,
                                        maxKeys |-> maxKeys, token |-> token,
                                        startAfter |-> startAfter])} :
                 Answer(r)

CallListObjectVersions ==
    /\ listing = NoListing
    /\ pager = NoPager
    /\ UNCHANGED pager
    /\ \E prefix \in Prefixes, delimiter \in Delimiters, maxKeys \in 0..MaxKeysBound :
         \E keyMarker \in MarkersFor(maxKeys, NameMarkers),
            versionIDMarker \in MarkersFor(maxKeys, IdMarkers) :
           /\ keyMarker = EmptyStr => versionIDMarker = EmptyStr
           /\ \E r \in {ListObjectVersions([prefix |-> prefix, delimiter |-> delimiter,
                                             maxKeys |-> maxKeys, keyMarker |-> keyMarker,
                                             versionIDMarker |-> versionIDMarker])} :
                 Answer(r)

\* the listing call returns to its caller
ListReturn ==
    /\ listing # NoListing
    /\ listing' = NoListing
    /\ UNCHANGED <<store, epoch, removed, versioning, objCache, namesCache, proc, hist,
                   listsCache, pager>>
    /\ UNCHANGED foldVars

\* writes of the keys and flat listings
ListNext ==
    \/ EnableVersioning
    \/ \E name \in Keys : PutKey(name) \/ DeleteKey(name)
    \/ CallListObjectsV1
    \/ CallListObjectsV2
    \/ ListReturn

ListSpec == SysInit /\ [][ListNext]_vars

\* writes of the keys and version listings
VersionsNext ==
    \/ EnableVersioning
    \/ \E name \in Keys : PutKey(name) \/ DeleteKey(name)
    \/ CallListObjectVersions
    \/ ListReturn

VersionsSpec == SysInit /\ [][VersionsNext]_vars

\* -------------------------------------------------------------- pagination
\* A client lists page by page: the first request carries no cursor, each
\* later one the cursor the previous page returned.  The bucket is not
\* written while the client pages.
MaxPages == 4
PageSizes == 1..MaxKeysBound

\* a max-keys that no listing of the bucket reaches
AllKeys == MaxId + 1

flatRequest(op, prefix, delimiter, maxKeys, cursor) ==
    IF op = "V1"
    THEN [prefix |-> prefix, delimiter |-> delimiter, maxKeys |-> maxKeys,
          marker |-> cursor]
    ELSE [prefix |-> prefix, delimiter |-> delimiter, maxKeys |-> maxKeys,
          token |-> cursor, startAfter |-> EmptyStr]

flatCall(op, p) == IF op = "V1" THEN ListObjectsV1(p) ELSE ListObjectsV2(p)

versionsRequest(prefix, delimiter, maxKeys, keyMarker, versionIDMarker) ==
    [prefix |-> prefix, delimiter |-> delimiter, maxKeys |-> maxKeys,
     keyMarker |-> keyMarker, versionIDMarker |-> versionIDMarker]

\* the objects of a page of versions, in the order listed
ObjectsOf(entries) == [i \in 1..Len(entries) |-> entries[i].object]

\* first page of ListObjectsV1 / ListObjectsV2
PageFirstFlat ==
    /\ listing = NoListing
    /\ pager = NoPager
    /\ \E op \in {"V1", "V2"}, prefix \in Prefixes, delimiter \in Delimiters,
          maxKeys \in PageSizes :
         \E r \in {flatCall(op, flatRequest(op, prefix, delimiter, maxKeys, EmptyStr))} :
           /\ Served(r)
           /\ pager' = [op |-> op, prefix |-> prefix, delimiter |-> delimiter,
                        maxKeys |-> maxKeys, pages |-> 1,
                        prefixes |-> r.result.prefixes, objects |-> r.result.objects,
                        isTruncated |-> r.result.isTruncated, next |-> r.result.next]
    /\ UNCHANGED listing

\* next page of ListObjectsV1 / ListObjectsV2, resumed with the cursor
PageResumeFlat ==
    /\ pager.op \in {"V1", "V2"}
    /\ pager.isTruncated
    /\ pager.pages < MaxPages
    /\ \E r \in {flatCall(pager.op, flatRequest(pager.op, pager.prefix, pager.delimiter,
                                                 pager.maxKeys, pager.next))} :
         /\ Served(r)
         /\ pager' = [pager EXCEPT !.pages = @ + 1,
                                   !.prefixes = @ \o r.result.prefixes,
                                   !.objects = @ \o r.result.objects,
                                   !.isTruncated = r.result.isTruncated,
                                   !.next = r.result.next]
    /\ UNCHANGED listing

\* first page of ListObjectVersions
PageFirstVersions ==
    /\ listing = NoListing
    /\ pager = NoPager
    /\ \E prefix \in Prefixes, delimiter \in Delimiters, maxKeys \in PageSizes :
         \E r \in {ListObjectVersions(versionsRequest(prefix, delimiter, maxKeys,
                                                      EmptyStr, EmptyStr))} :
           /\ Served(r)
           /\ pager' = [op |-> "versions", prefix |-> prefix, delimiter |-> delimiter,
                        maxKeys |-> maxKeys, pages |-> 1,
                        version |-> ObjectsOf(r.result.version),
                        deleteMarker |-> ObjectsOf(r.result.deleteMarker),
                        isTruncated |-> r.result.isTruncated,
                        nextKeyMarker |-> r.result.nextKeyMarker,
                        nextVersionIDMarker |-> r.result.nextVersionIDMarker]
    /\ UNCHANGED listing

\* next page of ListObjectVersions, resumed with the returned marker pair
PageResumeVersions ==
    /\ pager.op = "versions"
    /\ pager.isTruncated
    /\ pager.pages < MaxPages
    /\ \E r \in {ListObjectVersions(versionsRequest(pager.prefix, pager.delimiter,
                                                    pager.maxKeys, pager.nextKeyMarker,
                                                    pager.nextVersionIDMarker))} :
         /\ Served(r)
         /\ pager' = [pager EXCEPT !.pages = @ + 1,
                                   !.version = @ \o ObjectsOf(r.result.version),
                                   !.deleteMarker = @ \o ObjectsOf(r.result.deleteMarker),
                                   !.isTruncated = r.result.isTruncated,
                                   !.nextKeyMarker = r.result.nextKeyMarker,
                                   !.nextVersionIDMarker = r.result.nextVersionIDMarker]
    /\ UNCHANGED listing

\* the client is done with its pages
PageEnd ==
    /\ pager # NoPager
    /\ ~pager.isTruncated \/ pager.pages = MaxPages
    /\ pager' = NoPager
    /\ UNCHANGED <<store, epoch, removed, versioning, objCache, namesCache, proc, hist,
                   listsCache, listing>>
    /\ UNCHANGED foldVars

\* the backend moves on to its next epoch
NewEpoch ==
    /\ listing = NoListing
    /\ pager = NoPager
    /\ epoch < MaxEpoch
    /\ epoch' = epoch + 1
    /\ UNCHANGED <<store, removed, versioning, objCache, namesCache, proc, hist>>
    /\ UNCHANGED foldVars
    /\ UNCHANGED listVars

\* writes of the keys and a client paging through flat listings
FlatPagesNext ==
    \/ EnableVersioning
    \/ \E name \in Keys : PutKey(name) \/ DeleteKey(name)
    \/ PageFirstFlat
    \/ PageResumeFlat
    \/ PageEnd

FlatPagesSpec == SysInit /\ [][FlatPagesNext]_vars

\* writes of the keys over the epochs and a client paging through versions
VersionPagesNext ==
    \/ EnableVersioning
    \/ NewEpoch
    \/ \E name \in Keys : PutKey(name) \/ DeleteKey(name)
    \/ PageFirstVersions
    \/ PageResumeVersions
    \/ PageEnd

VersionPagesSpec == SysInit /\ [][VersionPagesNext]_vars

\* ------------------------------------------------------- reference notions
\* ids named in a header, read off its tokens
HeaderIds(header) == { <<t>> : t \in Range(header) \ {Comma} }

\* union of the add-lists and own ids of the objects S, minus the union of
\* their del-lists
ExpectedExisting(S) ==
    (UNION { HeaderIds(store[i].add) \cup {<<i>>} : i \in S })
        \ UNION { HeaderIds(store[i].del) : i \in S }

ExistingSet(v) == Range(v.addList) \ Range(v.delList)

Plain(o) == o.del = EmptyStr /\ o.mark = EmptyStr

\* the object of S greatest in (creation epoch, version id)
Newest(S) ==
    CHOOSE i \in S : \A j \in S :
        store[j].epoch < store[i].epoch
        \/ (store[j].epoch = store[i].epoch /\ j <= i)

Folded == Range(foldLog)

\* ------------------------------------------------------------------ claims

\* C1: whatever the order in which physical versions of a key are folded
\* with appendVersion, the existing set (all add-lists and own ids minus
\* all del-lists) is the set determined by the versions folded.
C1_ExistingOrderIndependent ==
    phase = "read" => ExistingSet(vs) = ExpectedExisting(Folded)

\* three versions folded in descending id order, one of them deleted by
\* another one's del-list
C1_Witness ==
    /\ foldLog = <<3, 2, 1>>
    /\ \E i \in Folded : <<i>> \notin ExistingSet(vs)
    /\ Cardinality(ExistingSet(vs)) = 2

\* C3: over versions without del-list entries and delete-mark getLast
\* returns the one greatest in (epoch, id); once a version of strictly
\* greater epoch carrying the mark "*" is folded in, getLast returns nil.
C3_GetLastThenFullDeleteMark ==
    LET n == Len(foldLog)
        plainUpTo(k) == \A i \in 1..k : Plain(store[foldLog[i]])
    IN  /\ (n >= 1 /\ plainUpTo(n)) =>
               /\ getLast(vs) = store[Newest(Folded)]
               /\ vs.isSorted => res = store[Newest(Folded)]
        /\ (/\ n >= 2
            /\ plainUpTo(n - 1)
            /\ store[foldLog[n]].mark = delMarkFullObject
            /\ \A i \in 1..(n - 1) : store[foldLog[i]].epoch < store[foldLog[n]].epoch) =>
               /\ getLast(vs) = Nil
               /\ vs.isSorted => res = Nil

\* two plain versions, then the full-object delete-mark of a later epoch,
\* and getLast has been called
C3_Witness ==
    /\ Len(foldLog) = 3
    /\ Plain(store[foldLog[1]]) /\ Plain(store[foldLog[2]])
    /\ foldLog[1] # foldLog[2]
    /\ store[foldLog[3]].mark = delMarkFullObject
    /\ store[foldLog[3]].epoch > store[foldLog[1]].epoch
    /\ store[foldLog[3]].epoch > store[foldLog[2]].epoch
    /\ vs.isSorted
    /\ res = Nil

\* C4: folding a version that is already folded changes neither the
\* existing set nor the version getLast returns.
C4_RefoldIdempotent ==
    [][(/\ Len(foldLog') = Len(foldLog) + 1
        /\ foldLog'[Len(foldLog')] \in Range(foldLog))
       => /\ ExistingSet(vs') = ExistingSet(vs)
          /\ Range(getExistedVersions(vs')) = Range(getExistedVersions(vs))
          /\ getLast(vs') = getLast(vs)]_vars

\* a version folded twice, with a current version resolved afterwards
C4_Witness ==
    /\ Len(foldLog) = 3
    /\ foldLog[3] = foldLog[1]
    /\ foldLog[2] # foldLog[1]
    /\ vs.isSorted
    /\ res # Nil

\* ids named in the del-list of a version folded so far
FoldedDelIds ==
    UNION { Range(splitVersions(store[foldLog[i]].del)) : i \in 1..Len(foldLog) }

\* C14: no fold takes an id out of the add-list or the del-list of the
\* VersionSet, and an id named in the del-list of a folded version is never
\* the answer of getLast nor among the answers of getFiltered, whatever is
\* folded later.
C14_SetsGrowDeletedStayOut ==
    /\ [][/\ Range(vs.addList) \subseteq Range(vs'.addList)
          /\ Range(vs.delList) \subseteq Range(vs'.delList)]_vars
    /\ [](/\ getLast(vs) # Nil => Version(getLast(vs)) \notin FoldedDelIds
          /\ \A i \in 1..Len(getFiltered(vs)) :
                Version(getFiltered(vs)[i]) \notin FoldedDelIds)

\* three folds, the first of a version that names a deleted id, the deleted
\* version itself folded after it, and getLast still answers with a version
C14_Witness ==
    /\ Len(foldLog) = 3
    /\ Range(splitVersions(store[foldLog[1]].del)) # {}
    /\ \E i \in 2..3 : <<foldLog[i]>> \in Range(splitVersions(store[foldLog[1]].del))
    /\ res # Nil
    /\ vs.isSorted

\* the versions of v whose id is in existing
EligibleOf(v) == { o \in Range(v.objects) : contains(getExistedVersions(v), Version(o)) }

\* the greatest of a non-empty set of versions in (epoch, id) order
NewestOf(S) == CHOOSE x \in S : \A y \in S \ {x} : less(y, x)

\* C15 as stated: getLast answers with the newest version whose id is in
\* existing, whatever version id its delete-mark names, and with not-found
\* when that version carries the full-object delete-mark or there is none.
C15_GetLastFirstEligible ==
    getLast(vs) = IF EligibleOf(vs) = {} THEN Nil
                  ELSE IF NewestOf(EligibleOf(vs)).mark = delMarkFullObject THEN Nil
                  ELSE NewestOf(EligibleOf(vs))

\* C15 amended: getLast passes over the versions whose id is not in existing
\* and over the eligible versions whose delete-mark names a version id; it
\* answers with the newest of the remaining versions, and with not-found
\* when that one carries the full-object delete-mark or none remains.
C15_GetLastSkipsVersionMarks ==
    LET candidates == { o \in EligibleOf(vs) :
                           o.mark = EmptyStr \/ o.mark = delMarkFullObject }
    IN  /\ getLast(vs) = IF candidates = {} THEN Nil
                         ELSE IF NewestOf(candidates).mark = delMarkFullObject THEN Nil
                         ELSE NewestOf(candidates)
        /\ vs.isSorted => res = getLast(vs)

\* getLast was called on a VersionSet whose newest eligible version carries
\* a delete-mark naming a version id, and answered with an older version
C15_Witness ==
    /\ vs.isSorted
    /\ res # Nil
    /\ NewestOf(EligibleOf(vs)).mark \notin {EmptyStr, delMarkFullObject}
    /\ less(res, NewestOf(EligibleOf(vs)))

\* no element of the sequence is less, in (epoch, id), than one before it
Ascending(objs) == \A i, j \in 1..Len(objs) : i < j => ~less(objs[j], objs[i])

\* C16 as stated: getFiltered answers with every version whose id is in
\* existing, and only those, in ascending (creation epoch, version id)
\* order.
C16_GetFilteredAllEligible ==
    /\ Range(getFiltered(vs)) = EligibleOf(vs)
    /\ Ascending(getFiltered(vs))

\* C16 amended: getFiltered answers with every version whose id is in
\* existing and whose delete-mark header is empty or the full-object mark,
\* and only those, in ascending (creation epoch, version id) order; an
\* eligible version whose delete-mark names a version id is left out.
C16_GetFilteredListable ==
    /\ Range(getFiltered(vs)) =
           { o \in EligibleOf(vs) : o.mark = EmptyStr \/ o.mark = delMarkFullObject }
    /\ Ascending(getFiltered(vs))

\* all three versions folded, newest first: a version is answered and an
\* eligible version whose delete-mark names a version id is left out
C16_Witness ==
    /\ Len(foldLog) = 3 /\ Folded = IDs
    /\ less(store[foldLog[3]], store[foldLog[1]])
    /\ Len(getFiltered(vs)) >= 1
    /\ \E o \in EligibleOf(vs) : o.mark \notin {EmptyStr, delMarkFullObject}

\* ------------------------------------------------ claims on the write path
\* the VersionSet headVersions builds from the objects on the backend
LiveVS == foldSet(newObjectVersions(KeyName), store, Live)

\* what the claims say getLast yields over the objects S: the one greatest
\* in (epoch, id) among those of S whose id is in the existing set
EligibleIn(S) == { i \in S : <<i>> \in ExpectedExisting(S) }

\* the same, with the delete-marks taken into account: versions marked
\* with a version id are passed over, and "*" on the greatest one left
\* means not found
Resolved(S) ==
    LET C == { i \in EligibleIn(S) : store[i].mark \in {EmptyStr, delMarkFullObject} }
    IN  IF C = {} THEN Err("NoSuchKey")
        ELSE IF store[Newest(C)].mark = delMarkFullObject THEN Err("NoSuchKey")
        ELSE Ok(Newest(C))

\* two objects written by plain PUTs that had read the same prior versions
TwinPuts(a, b) ==
    /\ a \in DOMAIN store /\ b \in DOMAIN store /\ a # b
    /\ store[a].mark = EmptyStr /\ store[b].mark = EmptyStr
    /\ hist.prior[a] = hist.prior[b]

\* a HEAD by name has answered from the versions it discovered: the two
\* objects a and b of concurrent PUTs and the prior versions both had read
ReaderSawTwins(p, a, b) ==
    /\ proc[p].op = "head" /\ proc[p].pc = "done"
    /\ TwinPuts(a, b)
    /\ proc[p].seen = hist.prior[a] \cup {a, b}

\* C2: after two PUTs that read the same prior VersionSet both objects
\* are in the existing set and every reader of the union gets the same
\* version, the greatest in (epoch, id) among the eligible versions.
C2_ConcurrentPutsResolve ==
    \A p \in Readers : \A a, b \in IDs :
        ReaderSawTwins(p, a, b) =>
            /\ a \in EligibleIn(proc[p].seen)
            /\ b \in EligibleIn(proc[p].seen)
            /\ proc[p].ret =
                   Ok(Newest({ i \in EligibleIn(proc[p].seen) : store[i].mark = EmptyStr }))

\* what does hold of every HEAD by name that went through headVersions:
\* its answer is a function of the set of versions discovered, whatever
\* the fold order
ResolutionOrderIndependent ==
    \A p \in Readers :
        (proc[p].op = "head" /\ proc[p].pc = "done" /\ proc[p].seen # {})
            => proc[p].ret = Resolved(proc[p].seen)

C6_AtMostOneLive ==
    (~versioning /\ \A q \in Procs : Free(q)) =>
        Cardinality(ExistingSet(LiveVS)) <= 1

\* -------------------------------------------------- delete of one version
\* the versions of S a HEAD of version "null" may resolve to
NullEligible(S) == { i \in EligibleIn(S) : store[i].unver /\ store[i].mark = EmptyStr }

HeadVersionAfterDelete(p) ==
    (proc[p].op = "headver" /\ proc[p].pc = "done" /\ proc[p].after)
        => proc[p].ret = Err("NoSuchVersion")

HeadNullAfterDelete(p) ==
    (proc[p].op = "headnull" /\ proc[p].pc = "done" /\ proc[p].after
        /\ proc[p].seen # {})
        => proc[p].ret = IF NullEligible(proc[p].seen) = {} THEN Err("NoSuchVersion")
                         ELSE Ok(Newest(NullEligible(proc[p].seen)))

\* C7: once the DELETE of one version has completed, a HEAD of that
\* version id answers not found, and a HEAD of version "null" resolves to
\* the next eligible version of the key when there is one.
C7_DeletedVersionNotFound ==
    \A p \in Readers : HeadVersionAfterDelete(p) /\ HeadNullAfterDelete(p)
\* C13: the step of objectDelete that tombstones an address leaves no
\* object-metadata cache entry of it, and no HEAD by version id that starts
\* after a successful objectDelete of the address is answered from the
\* object-metadata cache.
C13_NoCacheHitAfterDelete ==
    [][/\ \A id \in removed' \ removed : id \notin objCache'
       /\ \A p \in Readers, vid \in IDs :
            (StartHeadVersion(p, vid) /\ vid \in objCache) => vid \notin hist.deleted]_vars


\* ----------------------------------------------------------------- listing
FlatOps == {"V1", "V2"}

\* C8: ListObjectsV1 and ListObjectsV2 with max-keys 0 answer with an empty
\* result, not truncated, without next cursor, and call neither the backend
\* nor a cache, whatever the bucket holds: both caches are left as they
\* were.
C8_ZeroMaxKeysFlat ==
    /\ [](listing.op \in FlatOps =>
            (listing.p.maxKeys = 0 =>
                /\ ~listing.failed
                /\ listing.prefixes = << >> /\ listing.objects = << >>
                /\ ~listing.isTruncated /\ listing.next = EmptyStr
                /\ listing.calls = {}))
    /\ [][(listing'.op \in FlatOps /\ listing.op = "none") =>
            (listing'.p.maxKeys = 0 => UNCHANGED <<listsCache, objCache>>)]_vars

\* max-keys 0 asked of a bucket with two live objects of which no listing
\* is cached
C8_Witness ==
    /\ listing.op = "V2" /\ listing.p.maxKeys = 0
    /\ Cardinality(objectSearch(EmptyStr)) >= 2
    /\ listsCache = << >>
    /\ listing.objects = << >>

\* C9: ListObjectVersions with max-keys 0 over a bucket that holds a live
\* object under the prefix does not fail, answers with an empty result that
\* is not truncated, and does not touch the backend.
C9_ZeroMaxKeysVersions ==
    (listing.op = "versions") =>
        ((listing.p.maxKeys = 0 /\ objectSearch(listing.p.prefix) # {}) =>
            /\ ~listing.failed
            /\ listing.version = << >> /\ listing.deleteMarker = << >>
            /\ ~listing.isTruncated
            /\ listing.calls \cap {"objectSearch", "objectHead"} = {})

\* the live objects of the key name, folded
KeyVersions(name) ==
    foldSet(newObjectVersions(name), store,
            { i \in DOMAIN store \ removed : store[i].name = name })

\* the keys of the bucket that have a current version
LiveKeys == { name \in Keys : getLast(KeyVersions(name)) # Nil }

HasDelimiter(name, p) ==
    Len(p.delimiter) > 0 /\ Index(TrimPrefix(name, p.prefix), p.delimiter) >= 0

\* the name up to and including the first delimiter after the prefix
CommonPrefix(name, p) ==
    LET tail == TrimPrefix(name, p.prefix)
    IN  p.prefix \o SubSeq(tail, 1, Index(tail, p.delimiter) + Len(p.delimiter))

\* a live delete marker of the whole key under the common prefix cp
MarkerUnder(cp) ==
    \E i \in DOMAIN store \ removed :
        HasPrefix(store[i].name, cp) /\ store[i].mark = delMarkFullObject

\* the listing was asked from the start, for at least one key, and came
\* back whole
WholeListing ==
    /\ listing.p.maxKeys > 0
    /\ ~listing.isTruncated
    /\ IF listing.op = "V1" THEN listing.p.marker = EmptyStr
       ELSE listing.p.token = EmptyStr /\ listing.p.startAfter = EmptyStr

IsPrefix(a, b) == Len(a) <= Len(b) /\ SubSeq(b, 1, Len(a)) = a

\* the listing the paging client would get in one page
WholeFlat ==
    flatCall(pager.op, flatRequest(pager.op, pager.prefix, pager.delimiter, AllKeys,
                                   EmptyStr)).result

WholeVersions ==
    ListObjectVersions(versionsRequest(pager.prefix, pager.delimiter, AllKeys,
                                       EmptyStr, EmptyStr)).result

\* C11: a client that lists with ListObjectsV1 or ListObjectsV2 page by page,
\* max-keys k >= 1, resuming with the returned cursor, has at every moment
\* collected a leading part of the one-page listing (nothing skipped,
\* nothing repeated, same order); every truncated page brought k entries,
\* and once a page is not truncated the client holds the whole listing.
C11_FlatPagesRoundTrip ==
    (pager.op \in FlatOps) =>
        /\ IsPrefix(pager.prefixes, WholeFlat.prefixes)
        /\ IsPrefix(pager.objects, WholeFlat.objects)
        /\ pager.isTruncated =>
              Len(pager.prefixes) + Len(pager.objects) = pager.pages * pager.maxKeys
        /\ ~pager.isTruncated =>
              /\ pager.prefixes = WholeFlat.prefixes
              /\ pager.objects = WholeFlat.objects

\* three keys listed with ListObjectsV2 in three pages of one key
C11_Witness ==
    /\ pager.op = "V2" /\ pager.maxKeys = 1 /\ pager.pages = 3
    /\ ~pager.isTruncated
    /\ NamesOf(pager.objects) = << <<Char.a, Char.slash, Char.one>>,
                                   <<Char.a, Char.slash, Char.two>>, <<Char.b>> >>

\* C12: a client that lists with ListObjectVersions page by page, max-keys
\* k >= 1, resuming with the returned (NextKeyMarker, NextVersionIDMarker),
\* has at every moment collected a leading part of the one-page version
\* listing, and the whole of it once a page is not truncated.
C12_VersionPagesRoundTrip ==
    (pager.op = "versions") =>
        /\ IsPrefix(pager.version, ObjectsOf(WholeVersions.version))
        /\ IsPrefix(pager.deleteMarker, ObjectsOf(WholeVersions.deleteMarker))
        /\ ~pager.isTruncated =>
              /\ pager.version = ObjectsOf(WholeVersions.version)
              /\ pager.deleteMarker = ObjectsOf(WholeVersions.deleteMarker)

\* ------------------------------------------------------------ header merge
\* the ids of the prior versions marked unversioned
PriorUnversioned(v) == { o.id : o \in { x \in Range(v.objects) : x.unver } }

\* C17: with versioning disabled and a prior VersionSet that is not empty
\* the merge sets the unversioned flag, writes the prior add-list as the
\* add header, writes a del header naming exactly the prior del-list, the
\* prior unversioned versions and the id an incoming del header names, and
\* returns exactly the prior unversioned ids for deletion.
C17_DisabledMerge ==
    (merged.done /\ ~merged.versioningEnabled /\ ~isEmpty(merged.versions)) =>
        /\ merged.out.header.unver
        /\ merged.out.header.add = getAddHeader(merged.versions)
        /\ HeaderIds(merged.out.header.del) =
               Range(merged.versions.delList)
               \cup { <<i>> : i \in PriorUnversioned(merged.versions) }
               \cup HeaderIds(merged.header.del)
        /\ Range(merged.out.idsToDelete) = PriorUnversioned(merged.versions)

\* every object stored so far was written by a PUT that found versioning
\* enabled and carried no delete-mark
OnlyVersionedPuts ==
    \A i \in DOMAIN store : ~store[i].unver /\ store[i].mark = EmptyStr

\* C18: a write that finds versioning enabled stores the prior add-list as
\* its add header and a del header naming exactly the prior del-list and
\* the id its incoming del header names, and has no deletion candidates;
\* and as long as only versioning-enabled PUTs have written the key, every
\* version written is in existing and nothing was deleted on the backend.
C18_EnabledMergeKeepsHistory ==
    /\ [][\A p \in Procs :
            (PutObject(p) /\ proc[p].enabled) =>
                LET o == store'[proc'[p].newId]
                IN  /\ o.add = getAddHeader(proc[p].v)
                    /\ HeaderIds(o.del) =
                           Range(proc[p].v.delList) \cup HeaderIds(proc[p].hdr.del)
                    /\ proc'[p].todo = << >>]_vars
    /\ [](OnlyVersionedPuts =>
            /\ removed = {}
            /\ \A i \in DOMAIN store : <<i>> \in ExistingSet(LiveVS))

\* three versions written by versioning-enabled PUTs, two of them
\* overlapping, all requests returned
C18_Witness ==
    /\ DOMAIN store = IDs
    /\ OnlyVersionedPuts
    /\ hist.overlap
    /\ \A p \in Procs : Free(p)
    /\ Range(getExistedVersions(LiveVS)) = { <<i>> : i \in IDs }

\* C19: with the writes of the key one after the other, a HEAD of the key
\* by name that starts after a delete of the whole key has returned, with
\* no write of the key up to its answer, answers no such key.
C19_HeadAfterKeyDelete ==
    \A p \in Readers :
        (/\ proc[p].op = "head" /\ proc[p].pc = "done"
         /\ proc[p].after
         /\ ~hist.overlap
         /\ proc[p].since = hist.lastPut
         /\ \A q \in Procs : ~Writing(q))
            => proc[p].ret = Err("NoSuchKey")

\* C20: whatever happens in a round of the deletion loop of a PUT whose
\* backend put succeeded, the loop goes on with the candidates that remain
\* and after the last one the PUT returns success with the id of the
\* object it stored.
C20_CleanupFailureOnlyLogged ==
    [][\A p \in Procs :
          (proc[p].op \in {"put", "delkey"} /\ proc[p].pc = "cleanup"
           /\ proc'[p] # proc[p]) =>
              IF Len(proc[p].todo) > 1
              THEN /\ proc'[p].pc = "cleanup"
                   /\ proc'[p].todo = Tail(proc[p].todo)
                   /\ proc'[p].newId = proc[p].newId
              ELSE /\ proc'[p].pc = "done"
                   /\ proc'[p].ret = Ok(proc[p].newId)]_vars

\* three PUTs in a row without versioning; the last one had the two prior
\* versions to delete, the delete of the first failed, the second was
\* deleted all the same and the PUT returned its id
C20_Witness ==
    /\ ~versioning /\ ~hist.overlap
    /\ DOMAIN store = IDs
    /\ \A q \in Procs : Free(q)
    /\ hist.prior[hist.lastPut] = IDs \ {hist.lastPut}
    /\ removed = {hist.prevPut}
    /\ \E a \in IDs \ {hist.lastPut} : a < hist.prevPut
    /\ \E q \in Procs : proc[q].op = "put" /\ proc[q].ret = Ok(hist.lastPut)

SortedOf ==
    IF listing.op = "versions"
    THEN listsCache[<<listVersionsMethod, listing.p.prefix, listing.p.delimiter>>]
    ELSE listSortedObjects(listing.p.prefix, listing.p.delimiter).objects

LastOf(objects) == objects[Len(objects)]

\* the marker of the listing answered names the last element of the sorted
\* sequence or a place after it
MarkerPastEnd ==
    LET p == listing.p
        last == LastOf(SortedOf)
    IN  /\ Len(SortedOf) > 0
        /\ CASE listing.op = "V1" ->
                   p.marker # EmptyStr /\ ~StrLess(p.marker, last.name)
              [] listing.op = "V2" ->
                   \/ p.token # EmptyStr /\ p.token = Version(last)
                   \/ p.startAfter # EmptyStr /\ ~StrLess(p.startAfter, last.name)
              [] OTHER ->
                   /\ p.keyMarker # EmptyStr
                   /\ \/ StrLess(last.name, p.keyMarker)
                      \/ /\ p.keyMarker = last.name
                         /\ ~StrLess(p.versionIDMarker, Version(last))

EmptyAnswer ==
    /\ ~listing.failed
    /\ ~listing.isTruncated
    /\ IF listing.op = "versions"
       THEN /\ listing.version = << >> /\ listing.deleteMarker = << >>
            /\ listing.commonPrefixes = << >>
       ELSE listing.objects = << >> /\ listing.prefixes = << >>

\* C22: a listing with max-keys >= 1 (ListObjectsV1, ListObjectsV2,
\* ListObjectVersions) whose marker names the last element of the sorted
\* sequence, or a place after it, answers with an empty result that is not
\* truncated.
C22_MarkerPastEndEmpty ==
    (listing.op # "none") =>
        ((listing.p.maxKeys >= 1 /\ MarkerPastEnd) => EmptyAnswer)

\* the flat listings under the same condition
C22_FlatMarkerPastEndEmpty ==
    (listing.op \in FlatOps) =>
        ((listing.p.maxKeys >= 1 /\ MarkerPastEnd) => EmptyAnswer)

C22_FlatWitness ==
    /\ listing.op = "V1" /\ listing.p.maxKeys >= 1
    /\ Len(SortedOf) = 2
    /\ MarkerPastEnd
    /\ EmptyAnswer

\* ------------------------------------------------------- page size
\* the sequence that remains once the cursor of the listing answered was
\* applied to the sorted sequence, directory entries included
RemainingOf ==
    LET p == listing.p
        all == SortedOf
    IN  CASE listing.op = "V1" ->
               IF p.marker # EmptyStr THEN trimAfterObjectName(p.marker, all) ELSE all
          [] listing.op = "V2" ->
               With(IF p.token # EmptyStr THEN trimAfterObjectID(p.token, all) ELSE all,
                    LAMBDA afterToken :
                       IF p.startAfter # EmptyStr
                       THEN trimAfterObjectName(p.startAfter, afterToken)
                       ELSE afterToken)
          [] OTHER ->
               LET hits == { i \in 1..Len(all) :
                                /\ ~StrLess(all[i].name, p.keyMarker)
                                /\ ~StrLess(Version(all[i]), p.versionIDMarker) }
               IN  IF hits = {} THEN all
                   ELSE SubSeq(all, CHOOSE i \in hits : \A j \in hits : i <= j, Len(all))

\* entries of the answer, common prefixes included
EntriesOf ==
    IF listing.op = "versions"
    THEN Len(listing.commonPrefixes) + Len(listing.version) + Len(listing.deleteMarker)
    ELSE Len(listing.prefixes) + Len(listing.objects)

NextCursorSet ==
    IF listing.op = "versions" THEN listing.nextKeyMarker # EmptyStr
    ELSE listing.next # EmptyStr

PageWithin ==
    /\ EntriesOf <= listing.p.maxKeys
    /\ listing.isTruncated <=> Len(RemainingOf) > listing.p.maxKeys
    /\ listing.isTruncated <=> NextCursorSet

\* C23: a listing with max-keys k >= 1 (ListObjectsV1, ListObjectsV2,
\* ListObjectVersions) answers with at most k entries, common prefixes
\* included, and is marked truncated, with a next cursor, exactly when more
\* than k entries remain after the cursor was applied.
C23_AtMostMaxKeys ==
    (listing.op # "none") => (listing.p.maxKeys >= 1 => PageWithin)

\* the flat listings under the same condition
C23_FlatAtMostMaxKeys ==
    (listing.op \in FlatOps) => (listing.p.maxKeys >= 1 => PageWithin)

C23_FlatWitness ==
    /\ listing.op = "V2" /\ listing.p.maxKeys = 1
    /\ listing.p.delimiter # EmptyStr
    /\ Len(RemainingOf) = 2
    /\ listing.isTruncated
    /\ Len(listing.prefixes) = 1 /\ Len(listing.objects) = 0

\* ------------------------------------------------------ read your writes
\* the HEAD by name that p has answered started after the last write of
\* the key, a PUT, had returned, and no write has started since
HeadAfterPut(p) ==
    /\ proc[p].op = "head" /\ proc[p].pc = "done"
    /\ proc[p].quiet
    /\ hist.lastPut # 0
    /\ proc[p].since = hist.lastPut
    /\ store[hist.lastPut].mark = EmptyStr
    /\ ~hist.overlap
    /\ NoWriteInFlight

\* C24: with the writes of the key one after the other, a HEAD of the key
\* by name that starts after a PUT of the key has returned, with no write
\* of the key up to its answer, answers with the version that PUT wrote,
\* with versioning enabled or disabled.
C24_HeadAfterPut ==
    \A p \in Readers : HeadAfterPut(p) => proc[p].ret = Ok(hist.lastPut)

\* the same for the PUTs whose version is the newest one in the order of
\* the versions
C24_HeadAfterNewestPut ==
    \A p \in Readers :
        (HeadAfterPut(p) /\ getLast(LiveVS) # Nil /\ getLast(LiveVS).id = hist.lastPut)
            => proc[p].ret = Ok(hist.lastPut)

\* the same with versioning disabled
C24_HeadAfterUnversionedPut ==
    \A p \in Readers :
        (HeadAfterPut(p) /\ ~versioning) => proc[p].ret = Ok(hist.lastPut)

\* ------------------------------------------------------ common prefixes
\* the common prefixes under which a key with a current version collapses
LivePrefixes(p) ==
    { CommonPrefix(name, p) :
        name \in { k \in LiveKeys : HasPrefix(k, p.prefix) /\ HasDelimiter(k, p) } }

\* C25: in a whole flat listing with a delimiter the common prefixes listed
\* are exactly the ones under which at least one key with a current
\* version collapses: the delete of one key does not hide the common
\* prefix of a key that is still live.
C25_PrefixListedIffLiveKey ==
    (listing.op \in FlatOps) =>
        ((listing.p.delimiter # EmptyStr /\ WholeListing) =>
            Range(listing.prefixes) = LivePrefixes(listing.p))

\* the part of it that needs no live sibling: a common prefix listed has
\* a key with a current version under it
C25_PrefixListedOnlyIfLiveKey ==
    (listing.op \in FlatOps) =>
        ((listing.p.delimiter # EmptyStr /\ WholeListing) =>
            Range(listing.prefixes) \subseteq LivePrefixes(listing.p))

\* ------------------------------------------------------------- IsLatest
\* the entries of the page of versions answered
PageEntries == Range(listing.version) \cup Range(listing.deleteMarker)

\* the entry is the newest eligible version of its key in the bucket
NewestOfKey(e) ==
    e.object.id = NewestOf(EligibleOf(KeyVersions(e.object.name))).id

\* C26: in a page of ListObjectVersions an entry is marked IsLatest if and
\* only if it is the newest eligible version of its key in the whole
\* bucket, on truncated pages too.
C26_IsLatestNewestOfKey ==
    (listing.op = "versions") =>
        ((listing.p.maxKeys >= 1 /\ ~listing.failed) =>
            \A e \in PageEntries : e.isLatest <=> NewestOfKey(e))

\* the same for the pages that are not truncated
C26_IsLatestOnLastPage ==
    (listing.op = "versions") =>
        ((listing.p.maxKeys >= 1 /\ ~listing.failed /\ ~listing.isTruncated) =>
            \A e \in PageEntries : e.isLatest <=> NewestOfKey(e))

\* --------------------------------------------------- HEAD during a PUT
\* the HEAD by name that p has answered ran in a bucket without versioning
\* and started when an object of the key was stored; the writes of the key
\* came one after the other
HeadOfStoredKey(p) ==
    /\ proc[p].op = "head" /\ proc[p].pc = "done"
    /\ ~versioning
    /\ ~hist.overlap
    /\ proc[p].since # 0

\* at most one PUT of the key had not returned when the HEAD started or
\* stored its object while the HEAD ran
OnePutMeanwhile(p) ==
    \/ hist.lastPut = proc[p].since
    \/ hist.prevPut = proc[p].since /\ proc[p].quiet

\* C27: without versioning, a HEAD by name of a key that was stored when
\* the HEAD started never answers not found, whatever a PUT of the key
\* does in between; with at most one PUT in between the answer is the
\* version that PUT stored or the one stored before it.
C27_HeadDuringOverwrite ==
    \A p \in Readers :
        HeadOfStoredKey(p) =>
            /\ proc[p].ret.kind = "ok"
            /\ OnePutMeanwhile(p) => proc[p].ret.id \in {hist.prevPut, hist.lastPut}

\* the second part alone: a HEAD that answers with a version answers with
\* the old or the new one
C27_OldOrNewWhenFound ==
    \A p \in Readers :
        (HeadOfStoredKey(p) /\ proc[p].ret.kind = "ok" /\ OnePutMeanwhile(p))
            => proc[p].ret.id \in {hist.prevPut, hist.lastPut}
====
